---- MODULE Spec2Model ----
(***************************************************************************)
(* Model of Shio: the UI loop of src/main.rs (App::main_loop), its row     *)
(* filter (App::update_row_to_data_index), and the background tasks that   *)
(* call the catalog client (Api in src/main.rs and in src/api.rs) and      *)
(* report through one mpsc channel.                                        *)
(*                                                                         *)
(* Strings that the code looks into (the texts the filter matches, the     *)
(* episode labels, the locators and uris) are sequences of one-character   *)
(* strings; ids and error texts are plain strings.  Indices stored         *)
(* in rows_to_data_index and in the table selection are 0-based as in the  *)
(* source; TLA+ sequences are 1-based, so data[i + 1] reads element i.     *)
(*                                                                         *)
(* The repository holds two definitions of the client: the Api of          *)
(* src/main.rs and the Api of src/api.rs.  They differ, for the loop, in   *)
(* what the debug flag does inside a call; the variable client says which  *)
(* one the tasks call.  The catalog answers a request by its arguments:    *)
(* the same show has the same episodes in every reply.                     *)
(*                                                                         *)
(* Spec is the UI loop with its tasks and FairSpec adds the fairness of    *)
(* the loop's own steps.  FilterSpec, ListSpec and LinksSpec apply         *)
(* update_row_to_data_index, get_episode_list and get_episode_links on     *)
(* their own to inputs drawn from bounded sets: call holds the input and   *)
(* ret the result.                                                         *)
(***************************************************************************)
EXTENDS Integers, Sequences, FiniteSets, TLC

\* ---------------------------------------------------------------- bounds
MaxTasks == 4        \* threads spawned in one run (the code has no limit)
MaxInput == 1        \* characters in the query box
MaxCursor == 2       \* highest row the cursor is driven to without a draw
MaxData == 2         \* items of a data set the filter is applied to on its own
MaxQuery == 3        \* characters of a query the filter is applied to on its own
MaxEps == 3          \* labels of an episode list get_episode_list is applied to
MaxSources == 2      \* sources of an episode get_episode_links is applied to

\* ------------------------------------------------------------- constants
None == -1                    \* Option::None of TableState::selected
UsizeMax == 2147483647        \* usize::MAX (select_previous on None)

SCORE_MATCH == 16
PENALTY_GAP_START == 3
PENALTY_GAP_EXTENSION == 1
BONUS_BOUNDARY_WHITE == 10
BONUS_CONSECUTIVE == 4
BONUS_FIRST_CHAR_MULTIPLIER == 2
NoMatch == -1                 \* Option::None of Pattern::score

\* ------------------------------------------------- the environment's data
Typed == {"a", "b"}           \* characters the user types

\* one row of a view: the text the filter matches, and what confirm uses
AnimeEdge(id, name) == [text |-> name, ref |-> id]
Episode(label) == [text |-> label, ref |-> ""]
Link(provider_name, uri) == [text |-> provider_name, ref |-> uri]

Edges1 == << AnimeEdge("A", <<"a", "b">>), AnimeEdge("B", <<"b">>) >>
Edges0 == << >>
SearchReplies == {Edges1, Edges0}

EpList1 == << Episode(<<"a", "b">>), Episode(<<"b">>) >>
EpList2 == << Episode(<<"b">>) >>
\* the catalog's episode list of a show
EpisodeReplies(id) == IF id = "A" THEN {EpList1} ELSE {EpList2}

\* the reply of the clock endpoint to the secondary GET: the call fails,
\* the body is not JSON, or it is JSON whose "links" is an array or not;
\* an element's "link" is a string or not
ClockReply(kind, is_array, links) == [kind |-> kind, is_array |-> is_array, links |-> links]
ClockLink(is_str, link) == [is_str |-> is_str, link |-> link]
TransportError == ClockReply("transport", FALSE, << >>)

\* one element of sourceUrls, with what the environment answers for it:
\* dec is what decrypt_url returns for the locator's token, reply is what
\* the clock endpoint answers
Source(source_name, source_url, dec, reply) ==
    [name |-> source_name, raw |-> source_url, dec |-> dec, reply |-> reply]

U1 == <<"u", "1">>
U2 == <<"u", "2">>
U3 == <<"u", "3">>
Sources1 == << Source(<<"a", "b">>, U1, << >>, TransportError),
               Source(<<"b">>, U2, << >>, TransportError) >>
Sources2 == << Source(<<"b">>, U3, << >>, TransportError) >>
Links1 == << Link(<<"a", "b">>, U1), Link(<<"b">>, U2) >>
Links2 == << Link(<<"b">>, U3) >>
\* the catalog's sources of an episode
LinksReplies(id, ep) == IF ep = <<"a", "b">> THEN {Sources1} ELSE {Sources2}

CurlStatus == {0, 1, 2}
\* what ExitStatus::code() returns: a status, or None for a process that a
\* signal ended
ExitCodes == CurlStatus \cup {None}

\* ------------------------------------------------------------ ApiResponse
Error(e) == [tag |-> "Error", e |-> e, data |-> << >>, id |-> ""]
SearchResp(edges) == [tag |-> "SearchResp", e |-> "", data |-> edges, id |-> ""]
EpisodeListResp(ep_list, id) ==
    [tag |-> "EpisodeListResp", e |-> "", data |-> ep_list, id |-> id]
EpisodeLinksResp(links) ==
    [tag |-> "EpisodeLinksResp", e |-> "", data |-> links, id |-> ""]

DataTags == {"SearchResp", "EpisodeListResp", "EpisodeLinksResp"}

\* the text the filter matches an item of a view against: item.name,
\* the episode label, or provider_name
Haystack(tag, item) == item.text

\* ------------------------------------------------------------ fuzzy score
Max(S) == CHOOSE x \in S : \A y \in S : y <= x

\* char::to_lowercase on the letters that occur in the data
Lower(c) ==
    CASE c = "A" -> "a" [] c = "B" -> "b" [] c = "N" -> "n" [] c = "S" -> "s"
      [] OTHER -> c

Fold(text) == [i \in 1..Len(text) |-> Lower(text[i])]

\* bonus and gap penalty of matching needle character k at haystack
\* position j when the previous needle character matched at prev (0: none)
CharScore(haystack, k, j, prev) ==
    SCORE_MATCH
    + (IF j = 1 \/ (j > 1 /\ haystack[j - 1] = " ")
         THEN BONUS_BOUNDARY_WHITE * (IF k = 1 THEN BONUS_FIRST_CHAR_MULTIPLIER ELSE 1)
         ELSE IF prev # 0 /\ j = prev + 1 THEN BONUS_CONSECUTIVE ELSE 0)
    - (IF prev # 0 /\ j > prev + 1
         THEN PENALTY_GAP_START + PENALTY_GAP_EXTENSION * (j - prev - 2)
         ELSE 0)

RECURSIVE Align(_, _, _, _, _)
\* best score of matching needle[k..] as a subsequence of haystack[from..]
Align(needle, haystack, k, from, prev) ==
    IF k > Len(needle) THEN 0
    ELSE LET cands == { j \in from..Len(haystack) :
                          /\ haystack[j] = needle[k]
                          /\ Align(needle, haystack, k + 1, j + 1, j) # NoMatch }
         IN IF cands = {} THEN NoMatch
            ELSE Max({ CharScore(haystack, k, j, prev)
                       + Align(needle, haystack, k + 1, j + 1, j) : j \in cands })

\* Atom::score of a fuzzy atom under CaseMatching::Smart: an atom without
\* an upper-case letter ignores case, any other atom respects it
AtomScore(atom, haystack) ==
    IF \E i \in 1..Len(atom) : Lower(atom[i]) # atom[i]
      THEN Align(atom, haystack, 1, 1, 0)
      ELSE Align(atom, Fold(haystack), 1, 1, 0)

\* a pattern that takes the whole query text as one atom
Atoms_whole(query) == IF query = << >> THEN << >> ELSE << query >>

RECURSIVE Atoms(_)
\* Pattern::new: the words of the query, split at white space, empty
\* words dropped
Atoms(query) ==
    IF query = << >> THEN << >>
    ELSE IF Head(query) = " " THEN Atoms(Tail(query))
    ELSE LET ends == { i \in 1..Len(query) : query[i] = " " }
             stop == IF ends = {} THEN Len(query) + 1
                     ELSE CHOOSE i \in ends : \A j \in ends : i <= j
         IN << SubSeq(query, 1, stop - 1) >>
            \o Atoms(SubSeq(query, stop, Len(query)))

RECURSIVE SumAtoms(_, _)
\* the sum of the atoms' scores, NoMatch as soon as one atom does not match
SumAtoms(atoms, haystack) ==
    IF atoms = << >> THEN 0
    ELSE LET a == AtomScore(Head(atoms), haystack)
             rest == SumAtoms(Tail(atoms), haystack)
         IN IF a = NoMatch \/ rest = NoMatch THEN NoMatch ELSE a + rest

\* a pattern without atoms that matches nothing
Score_nonempty(needle, haystack) ==
    IF Atoms(needle) = << >> THEN NoMatch ELSE SumAtoms(Atoms(needle), haystack)

\* Pattern::score: every atom must match; the pattern without atoms
\* scores 0 on every haystack
Score(needle, haystack) == SumAtoms(Atoms(needle), haystack)

\* ------------------------------------------------------ the row-index map
RECURSIVE InsertByScore_unstable(_, _)
\* a sort that puts a pair before the pairs of equal score
InsertByScore_unstable(sorted, x) ==
    IF sorted = << >> THEN << x >>
    ELSE IF Head(sorted)[2] > x[2]
           THEN << Head(sorted) >> \o InsertByScore_unstable(Tail(sorted), x)
           ELSE << x >> \o sorted

RECURSIVE InsertByScore(_, _)
\* insert pair x = <<index, score>> after every pair whose score is >= its own
InsertByScore(sorted, x) ==
    IF sorted = << >> THEN << x >>
    ELSE IF Head(sorted)[2] >= x[2]
           THEN << Head(sorted) >> \o InsertByScore(Tail(sorted), x)
           ELSE << x >> \o sorted

RECURSIVE SortByScore(_, _)
\* stable sort of pairs by descending score: sort_by(|a, b| b.1.cmp(&a.1))
SortByScore(pairs, n) ==
    IF n = 0 THEN << >>
    ELSE InsertByScore(SortByScore(pairs, n - 1), pairs[n])

RECURSIVE MatchesResult(_, _, _, _)
\* enumerate().filter_map(..): the pairs <<og_index, score>> of the items
\* the pattern matches, in data order, for the first n items
MatchesResult(tag, data, needle, n) ==
    IF n = 0 THEN << >>
    ELSE LET s == Score(needle, Haystack(tag, data[n]))
             rest == MatchesResult(tag, data, needle, n - 1)
         IN IF s = NoMatch THEN rest ELSE Append(rest, << n - 1, s >>)

\* the value update_row_to_data_index gives rows_to_data_index
update_row_to_data_index(r, query, old) ==
    IF r.tag = "Error" THEN old
    ELSE LET m == MatchesResult(r.tag, r.data, query, Len(r.data))
             s == SortByScore(m, Len(m))
         IN [i \in 1..Len(s) |-> s[i][1]]

Identity(n) == [i \in 1..n |-> i - 1]

\* ------------------------------------------------------------------ state
VARIABLES
    pc,                  \* "frame": top of the while loop; "poll": at event::poll;
                         \* "done": main_loop returned; "panic": it panicked
    resp,                \* App::resp
    rows_to_data_index,  \* App::rows_to_data_index
    input,               \* App::input, the query text
    selected,            \* App::widget_states.table.selected()
    exit,                \* App::exit
    chan,                \* the mpsc channel: messages sent and not yet received
    tasks,               \* the threads spawned so far, in spawn order
    curl_url,            \* the url of the last curl run (empty before any)
    curl_code,           \* what ExitStatus::code() gave for it (None: no code)
    debug,               \* Args::debug, copied into Api::debug
    client,              \* which definition of Api the tasks call
    last_sent,           \* the message sent last on the channel (resp before any)
    prev_sent,           \* the message sent before it
    call,                \* the arguments of a client function applied on its own
    ret                  \* what that function returned

vars == << pc, resp, rows_to_data_index, input, selected, exit, chan, tasks,
           curl_url, curl_code, debug, client, last_sent, prev_sent, call, ret >>

Task(kind, id, ep) ==
    [kind |-> kind, id |-> id, ep |-> ep, st |-> "running", sends |-> 0]

\* ------------------------------------------------------ the catalog client
\* A client call ends in Ok(value), Err(text) or, in src/api.rs with the
\* debug flag set, in the panic of unimplemented!().
Ok(v) == [res |-> "Ok", msg |-> v]
Err(e) == [res |-> "Err", msg |-> Error(e)]
Panicked == [res |-> "Panic", msg |-> Error("")]

RequestError == "request failed"

search_anime(c, d) ==
    { Ok(SearchResp(e)) : e \in SearchReplies } \cup { Err(RequestError) }

\* the value of a decimal digit, -1 for any other character
Digit(c) ==
    CASE c = "0" -> 0 [] c = "1" -> 1 [] c = "2" -> 2 [] c = "3" -> 3 [] c = "4" -> 4
      [] c = "5" -> 5 [] c = "6" -> 6 [] c = "7" -> 7 [] c = "8" -> 8 [] c = "9" -> 9
      [] OTHER -> -1

RECURSIVE DigitsValue(_, _)
\* the number written by the first n characters of a string of digits
DigitsValue(label, n) ==
    IF n = 0 THEN 0 ELSE 10 * DigitsValue(label, n - 1) + Digit(label[n])

\* an f64: a number or NaN
F64(v) == [nan |-> FALSE, v |-> v]
NaN == [nan |-> TRUE, v |-> 0]

\* a.parse::<f64>().unwrap_or(0.0) for labels written with digits and
\* letters: a string of digits is its value, "nan" in any letter case is
\* NaN, and what does not parse is 0.0
ParseOrZero(label) ==
    IF label # << >> /\ \A i \in 1..Len(label) : Digit(label[i]) >= 0
      THEN F64(DigitsValue(label, Len(label)))
    ELSE IF Fold(label) = <<"n", "a", "n">> THEN NaN
    ELSE F64(0)

\* the closure given to sort_by: partial_cmp is None when either side is
\* NaN, and None is taken as Equal
Compare(a, b) ==
    LET x == ParseOrZero(a)
        y == ParseOrZero(b)
    IN IF x.nan \/ y.nan THEN "Equal"
       ELSE IF x.v < y.v THEN "Less"
       ELSE IF x.v > y.v THEN "Greater" ELSE "Equal"

RECURSIVE InsertEpisode(_, _)
\* one step of the insertion sort that slice::sort_by runs on a slice of up
\* to 20 elements: x moves left past every element it is Less than
InsertEpisode(sorted, x) ==
    IF sorted = << >> THEN << x >>
    ELSE LET last == sorted[Len(sorted)]
         IN IF Compare(x, last) = "Less"
              THEN Append(InsertEpisode(SubSeq(sorted, 1, Len(sorted) - 1), x), last)
              ELSE Append(sorted, x)

RECURSIVE SortEpisodes(_, _)
\* episodes.sort_by(..) on the first n labels
SortEpisodes(episodes, n) ==
    IF n = 0 THEN << >>
    ELSE InsertEpisode(SortEpisodes(episodes, n - 1), episodes[n])

NotFoundError(mode) ==
    CASE mode = "sub" -> "No episodes found for mode 'sub'"
      [] mode = "dub" -> "No episodes found for mode 'dub'"
      [] mode = "raw" -> "No episodes found for mode 'raw'"

\* get_episode_list after the response was read: detail is
\* availableEpisodesDetail, the map from mode to episode labels
episode_list_reply(detail, mode, c, d, id) ==
    IF mode \notin DOMAIN detail THEN Err(NotFoundError(mode))
    ELSE IF c = "api.rs" /\ d THEN Panicked
    ELSE LET episodes == SortEpisodes(detail[mode], Len(detail[mode]))
         IN Ok(EpisodeListResp([i \in 1..Len(episodes) |-> Episode(episodes[i])], id))

\* the mode the tasks' client was built with
Mode == "sub"

\* the catalog's availableEpisodesDetail of a show
DetailReplies(id) ==
    { [m \in {Mode} |-> [i \in 1..Len(l) |-> l[i].text]] : l \in EpisodeReplies(id) }

get_episode_list(c, d, id) ==
    { Err(RequestError) }
    \cup { episode_list_reply(detail, Mode, c, d, id) : detail \in DetailReplies(id) }

\* str::starts_with, str::contains and str::replace on character sequences
StartsWith(str, pat) == Len(str) >= Len(pat) /\ SubSeq(str, 1, Len(pat)) = pat
Contains(str, pat) ==
    \E i \in 1..(Len(str) - Len(pat) + 1) : SubSeq(str, i, i + Len(pat) - 1) = pat
RECURSIVE Replace(_, _, _)
Replace(str, from, to) ==
    IF Len(str) < Len(from) THEN str
    ELSE IF StartsWith(str, from)
           THEN to \o Replace(SubSeq(str, Len(from) + 1, Len(str)), from, to)
           ELSE << Head(str) >> \o Replace(Tail(str), from, to)

Marker == <<"-", "-">>
Slashes == <<"/", "/">>
Https == <<"h", "t", "t", "p", "s", ":">>
Http == <<"h", "t", "t", "p", ":">>
Clock == <<"/", "c", "l", "o", "c", "k">>
ClockJson == <<"/", "c", "l", "o", "c", "k", ".", "j", "s", "o", "n">>
ClockJsonName == <<"c", "l", "o", "c", "k", ".", "j", "s", "o", "n">>
ApiPrefix == <<"/", "a", "p", "i", "v", "t", "w", "o", "/">>
ApiHost == <<"h", "t", "t", "p", "s", ":", "/", "/", "a", "l", "l", "a", "n", "i", "m", "e", ".", "d", "a", "y">>

\* utils::decrypt_url: the literal string the token stands for, here the
\* one the environment gives with the source
decrypt_url(token, dec) == dec

\* the scheme a protocol-relative locator gets
Scheme(c) == IF c = "api.rs" THEN Https ELSE Http

\* the first rewrite: decode a locator that carries the marker, else
\* complete the protocol of one that begins with two slashes
Deobfuscate(raw_uri, dec, c) ==
    IF StartsWith(raw_uri, Marker) THEN decrypt_url(SubSeq(raw_uri, 3, Len(raw_uri)), dec)
    ELSE IF StartsWith(raw_uri, Slashes) THEN Scheme(c) \o raw_uri
    ELSE raw_uri

NormalizePath(uri) ==
    IF Contains(uri, Clock) /\ ~Contains(uri, ClockJson)
      THEN Replace(uri, Clock, ClockJson) ELSE uri

\* a client that leaves a bare path without a host
CompleteHost_none(uri) == uri

CompleteHost(uri) == IF StartsWith(uri, ApiPrefix) THEN ApiHost \o uri ELSE uri

\* a client that asks the clock endpoint for every uri
NeedsClock_always(uri, c) == c = "api.rs"

\* whether the secondary GET is made; src/main.rs has no such step
NeedsClock(uri, c) == c = "api.rs" /\ Contains(uri, ClockJsonName)

\* resolve_clock_urls: the "link" of the first element of "links"
resolve_clock_urls(reply) ==
    IF /\ reply.kind = "json"
       /\ reply.is_array
       /\ reply.links # << >>
       /\ reply.links[1].is_str
      THEN [ok |-> TRUE, v |-> reply.links[1].link]
      ELSE [ok |-> FALSE, v |-> << >>]

\* the rewrites of one source: the value after the first rewrite, after
\* the rewrite of the clock path, the uri before the secondary call, whether
\* the call is made, and the final uri
Resolve(source, c) ==
    LET step1 == Deobfuscate(source.raw, source.dec, c)
        norm == NormalizePath(step1)
        pre == CompleteHost(norm)
        secondary == NeedsClock(pre, c)
        r == resolve_clock_urls(source.reply)
    IN [step1 |-> step1, norm |-> norm, pre |-> pre, secondary |-> secondary,
        uri |-> IF secondary /\ r.ok THEN r.v ELSE pre]

\* get_episode_links after the response was read: sources is sourceUrls
episode_links_reply(sources, c, d) ==
    IF c = "api.rs" /\ d /\ sources # << >> THEN Panicked
    ELSE Ok(EpisodeLinksResp([i \in 1..Len(sources) |->
                                Link(sources[i].name, Resolve(sources[i], c).uri)]))

\* the rewrites the loop over the sources ran, one record per source it
\* reached: all of them, or the first one when the loop panics on it
LinksTrace(sources, c, d) ==
    LET n == IF c = "api.rs" /\ d /\ sources # << >> THEN 1 ELSE Len(sources)
    IN [i \in 1..n |-> Resolve(sources[i], c)]

get_episode_links(c, d, id, ep) ==
    { Err(RequestError) }
    \cup { episode_links_reply(sources, c, d) : sources \in LinksReplies(id, ep) }

ClientCall(t, c, d) ==
    CASE t.kind = "search" -> search_anime(c, d)
      [] t.kind = "list" -> get_episode_list(c, d, t.id)
      [] t.kind = "links" -> get_episode_links(c, d, t.id, t.ep)

\* a thread that has ended holds no captured id or episode any more
Ended(t, st, sends) ==
    [kind |-> t.kind, id |-> "", ep |-> << >>, st |-> st, sends |-> sends]

\* the closure of thread::spawn: one client call, then one send of the typed
\* result or of the tagged error; a panic inside the call unwinds the thread
ThreadRun(i) ==
    /\ pc \in {"frame", "poll"}
    /\ i \in 1..Len(tasks)
    /\ tasks[i].st = "running"
    /\ \E o \in ClientCall(tasks[i], client, debug) :
         IF o.res = "Panic"
           THEN /\ tasks' = [tasks EXCEPT ![i] = Ended(@, "panicked", @.sends)]
                /\ UNCHANGED << chan, last_sent, prev_sent >>
           ELSE /\ tasks' = [tasks EXCEPT ![i] = Ended(@, "done", @.sends + 1)]
                /\ chan' = Append(chan, o.msg)
                /\ last_sent' = o.msg
                /\ prev_sent' = last_sent
    /\ UNCHANGED << pc, resp, rows_to_data_index, input, selected, exit,
                    curl_url, curl_code, debug, client, call, ret >>

\* ------------------------------------------------------------ the UI loop
\* rx.try_recv(): the oldest message of the channel
TryRecv(q) == Head(q)

\* a loop that empties the channel and applies only the oldest message
Drained_all(q) == << >>

\* what try_recv leaves in the channel
Drained(q) == Tail(q)

\* a loop that keeps what it shows when a result of the same kind arrives
ApplyResp_keep(m, old) == IF m.tag = old.tag THEN old ELSE m

\* self.resp = api_resp
ApplyResp(m, old) == m

\* a loop that empties the map when an error arrives
RowsOnRecv_clear(m, old) ==
    IF m.tag \in DataTags THEN Identity(Len(m.data)) ELSE << >>

\* the match on the received message: identity map for a result,
\* nothing for an error
RowsOnRecv(m, old) ==
    IF m.tag \in DataTags THEN Identity(Len(m.data)) ELSE old

\* a loop that recomputes the filter in every iteration
RowsIfEmpty_always(r, query, rows) == update_row_to_data_index(r, query, rows)

\* if self.rows_to_data_index.is_empty() { self.update_row_to_data_index() }
RowsIfEmpty(r, query, rows) ==
    IF rows = << >> THEN update_row_to_data_index(r, query, rows) ELSE rows

\* a draw that leaves the selection where it is
DrawSelected_noclamp(r, rows, sel) == sel

\* the table selection after terminal.draw: the table of a result view is
\* rendered with one row per element of rows_to_data_index and the table
\* widget moves a selection past the last row onto it, or drops it when
\* there are no rows; the Error view renders no table.  (The terminal is
\* taken to leave the table a non-empty area; the widget returns before this
\* step when it has none.)
DrawSelected(r, rows, sel) ==
    IF r.tag = "Error" THEN sel
    ELSE IF rows = << >> THEN None
    ELSE IF sel # None /\ sel >= Len(rows) THEN Len(rows) - 1
    ELSE sel

\* while !self.exit
LoopExit ==
    /\ pc = "frame"
    /\ exit
    /\ pc' = "done"
    /\ UNCHANGED << resp, rows_to_data_index, input, selected, exit, chan, tasks,
                    curl_url, curl_code, debug, client, last_sent, prev_sent, call, ret >>

\* try_recv, the refresh of an empty map, and the draw
Frame ==
    /\ pc = "frame"
    /\ ~exit
    /\ LET has == chan # << >>
           m == TryRecv(chan)
           r == IF has THEN ApplyResp(m, resp) ELSE resp
           rows1 == IF has THEN RowsOnRecv(m, rows_to_data_index)
                    ELSE rows_to_data_index
           rows2 == RowsIfEmpty(r, input, rows1)
       IN /\ resp' = r
          /\ chan' = IF has THEN Drained(chan) ELSE chan
          /\ rows_to_data_index' = rows2
          /\ selected' = DrawSelected(r, rows2, selected)
    /\ pc' = "poll"
    /\ UNCHANGED << input, exit, tasks, curl_url, curl_code, debug, client, last_sent, prev_sent, call, ret >>

\* event::poll timed out, or the event read was not a key
NoKey ==
    /\ pc = "poll"
    /\ pc' = "frame"
    /\ UNCHANGED << resp, rows_to_data_index, input, selected, exit, chan, tasks,
                    curl_url, curl_code, debug, client, last_sent, prev_sent, call, ret >>

KeyEsc ==
    /\ pc = "poll"
    /\ pc' = "done"
    /\ UNCHANGED << resp, rows_to_data_index, input, selected, exit, chan, tasks,
                    curl_url, curl_code, debug, client, last_sent, prev_sent, call, ret >>

\* TableState::select_next
select_next(sel) ==
    IF sel = None THEN 0 ELSE IF sel = UsizeMax THEN UsizeMax ELSE sel + 1

\* TableState::select_previous
select_previous(sel) ==
    IF sel = None THEN UsizeMax ELSE IF sel = 0 THEN 0 ELSE sel - 1

KeyDown ==
    /\ pc = "poll"
    /\ select_next(selected) \in (0..MaxCursor) \cup {UsizeMax}
    /\ selected' = select_next(selected)
    /\ pc' = "frame"
    /\ UNCHANGED << resp, rows_to_data_index, input, exit, chan, tasks,
                    curl_url, curl_code, debug, client, last_sent, prev_sent, call, ret >>

KeyUp ==
    /\ pc = "poll"
    /\ select_previous(selected) \in (0..MaxCursor) \cup {UsizeMax}
    /\ selected' = select_previous(selected)
    /\ pc' = "frame"
    /\ UNCHANGED << resp, rows_to_data_index, input, exit, chan, tasks,
                    curl_url, curl_code, debug, client, last_sent, prev_sent, call, ret >>

\* Left and Right move the column selection, which nothing else reads
KeyLeftRight ==
    /\ pc = "poll"
    /\ pc' = "frame"
    /\ UNCHANGED << resp, rows_to_data_index, input, selected, exit, chan, tasks,
                    curl_url, curl_code, debug, client, last_sent, prev_sent, call, ret >>

\* a confirm that reads the data at the cursor itself
ConfirmIndex_cursor(rows, row) == row

\* the index into the view's data that confirm uses for the selected row
ConfirmIndex(rows, row) == rows[row + 1]

\* a handler that confirms the first row when no row is selected
Selected_or_first(sel) == IF sel = None THEN 0 ELSE sel

\* self.widget_states.table.selected()
Selected(sel) == sel

\* .code().unwrap_or(1)
CodeOr1(code) == IF code = None THEN 1 ELSE code

\* a handler that ends the loop after every download
ExitOnStatus_always(cmd) == TRUE

\* if cmd == 1 || cmd == 0 { self.exit = true }
ExitOnStatus(cmd) == cmd = 1 \/ cmd = 0

\* Enter
KeyEnter ==
    /\ pc = "poll"
    /\ IF resp.tag = "Error"
         THEN /\ pc' = "panic"
              /\ UNCHANGED << tasks, curl_url, curl_code, exit >>
       ELSE IF Selected(selected) = None
         THEN \* return Ok(())
              /\ pc' = "done"
              /\ UNCHANGED << tasks, curl_url, curl_code, exit >>
       ELSE IF Selected(selected) >= Len(rows_to_data_index)
                 \/ ConfirmIndex(rows_to_data_index, Selected(selected)) >= Len(resp.data)
         THEN \* index out of bounds
              /\ pc' = "panic"
              /\ UNCHANGED << tasks, curl_url, curl_code, exit >>
       ELSE LET item == resp.data[ConfirmIndex(rows_to_data_index, Selected(selected)) + 1]
            IN CASE resp.tag = "SearchResp" ->
                      /\ Len(tasks) < MaxTasks
                      /\ tasks' = Append(tasks, Task("list", item.ref, << >>))
                      /\ pc' = "frame"
                      /\ UNCHANGED << curl_url, curl_code, exit >>
                 [] resp.tag = "EpisodeListResp" ->
                      /\ Len(tasks) < MaxTasks
                      /\ tasks' = Append(tasks, Task("links", resp.id, item.text))
                      /\ pc' = "frame"
                      /\ UNCHANGED << curl_url, curl_code, exit >>
                 [] resp.tag = "EpisodeLinksResp" ->
                      /\ curl_url' = item.ref
                      /\ \/ \E code \in ExitCodes :
                              /\ curl_code' = code
                              /\ exit' = (exit \/ ExitOnStatus(CodeOr1(code)))
                              /\ pc' = "frame"
                         \/ \* .expect("Failed to execute curl")
                            /\ pc' = "panic"
                            /\ UNCHANGED << curl_code, exit >>
                      /\ UNCHANGED tasks
    /\ UNCHANGED << resp, rows_to_data_index, input, selected, chan,
                    debug, client, last_sent, prev_sent, call, ret >>

\* Input::handle_event for a key that is not matched above: a character is
\* appended, the last character is deleted, or the text stays as it is
HandleEvent(text) ==
    { Append(text, c) : c \in IF Len(text) < MaxInput THEN Typed ELSE {} }
    \cup { SubSeq(text, 1, Len(text) - 1), text }

\* a key handler that forgets to recompute the map
RowsOnKey_stale(r, text, rows) == rows

\* self.update_row_to_data_index() after the input box handled the key
RowsOnKey(r, text, rows) == update_row_to_data_index(r, text, rows)

RECURSIVE IndexOf(_, _, _)
\* the first position >= i of rows that holds x, None when there is none
IndexOf(rows, x, i) ==
    IF i > Len(rows) THEN None
    ELSE IF rows[i] = x THEN i - 1 ELSE IndexOf(rows, x, i + 1)

\* a key handler that moves the cursor to the row that now shows the record
\* it was on
CursorOnKey_follow(old_rows, new_rows, sel) ==
    IF sel # None /\ sel < Len(old_rows)
      THEN IndexOf(new_rows, old_rows[sel + 1], 1)
      ELSE sel

\* the table selection after the key: the handler does not touch it
CursorOnKey(old_rows, new_rows, sel) == sel

\* any other key: the input box handles it and the map is recomputed
KeyOther ==
    /\ pc = "poll"
    /\ \E text \in HandleEvent(input) :
         /\ input' = text
         /\ rows_to_data_index' = RowsOnKey(resp, text, rows_to_data_index)
         /\ selected' = CursorOnKey(rows_to_data_index,
                                    RowsOnKey(resp, text, rows_to_data_index), selected)
    /\ pc' = "frame"
    /\ UNCHANGED << resp, exit, chan, tasks, curl_url, curl_code, debug, client, last_sent,
                    prev_sent, call, ret >>

Init ==
    /\ pc = "frame"
    /\ resp = Error("")
    /\ rows_to_data_index = << >>
    /\ input = << >>
    /\ selected = 0
    /\ exit = FALSE
    /\ chan = << >>
    /\ tasks = << Task("search", "", << >>) >>
    /\ curl_url = << >>
    /\ curl_code = None
    /\ debug \in BOOLEAN
    /\ client \in {"main.rs", "api.rs"}
    /\ last_sent = Error("")
    /\ prev_sent = Error("")
    /\ call = << >>
    /\ ret = << >>

Next ==
    \/ \E i \in 1..MaxTasks : ThreadRun(i)
    \/ LoopExit
    \/ Frame
    \/ NoKey
    \/ KeyEsc
    \/ KeyDown
    \/ KeyUp
    \/ KeyLeftRight
    \/ KeyEnter
    \/ KeyOther

Spec == Init /\ [][Next]_vars

\* ------------------------------------------ the filter applied on its own
FilterTyped == {"a", "b", " ", "B"}
KeyTexts == { <<"a">>, <<"a", "b">>, <<"b", "a">>, <<"a", " ", "b">>, <<"B">> }

Seqs(S, n) == UNION { [1..k -> S] : k \in 0..n }

Naruto == <<"N", "a", "r", "u", "t", "o">>
NarutoShippuden ==
    <<"N", "a", "r", "u", "t", "o", " ", "S", "h", "i", "p", "p", "u", "d", "e", "n">>
Boruto == <<"B", "o", "r", "u", "t", "o">>
NarutoEdges ==
    << AnimeEdge("A", Naruto), AnimeEdge("B", NarutoShippuden), AnimeEdge("C", Boruto) >>
Shippu == <<"s", "h", "i", "p", "p", "u">>

\* the views the filter is applied to: every data set of up to MaxData
\* items in each of the three views, and the titles of the search scenario
FilterViews ==
    { SearchResp(d) : d \in Seqs({ AnimeEdge("A", t) : t \in KeyTexts }, MaxData) }
    \cup { EpisodeListResp(d, "A") : d \in Seqs({ Episode(t) : t \in KeyTexts }, MaxData) }
    \cup { EpisodeLinksResp(d) : d \in Seqs({ Link(t, U1) : t \in KeyTexts }, MaxData) }
    \cup { SearchResp(NarutoEdges) }

Queries == Seqs(FilterTyped, MaxQuery) \cup { Shippu }

FilterInit ==
    /\ pc = "pure"
    /\ resp \in FilterViews
    /\ rows_to_data_index = Identity(Len(resp.data))
    /\ input = << >>
    /\ selected = None
    /\ exit = FALSE
    /\ chan = << >>
    /\ tasks = << >>
    /\ curl_url = << >>
    /\ curl_code = None
    /\ debug = FALSE
    /\ client = "main.rs"
    /\ last_sent = Error("")
    /\ prev_sent = Error("")
    /\ call = << >>
    /\ ret = << >>

\* self.update_row_to_data_index() with the query text in the input box
Filter ==
    /\ pc = "pure"
    /\ \E q \in Queries :
         /\ input' = q
         /\ rows_to_data_index' = update_row_to_data_index(resp, q, rows_to_data_index)
    /\ pc' = "filtered"
    /\ UNCHANGED << resp, selected, exit, chan, tasks, curl_url, curl_code, debug, client,
                    last_sent, prev_sent, call, ret >>

FilterSpec == FilterInit /\ [][Filter]_vars

\* --------------------------------- get_episode_list applied on its own
Modes == {"sub", "dub"}
Labels == { <<"1">>, <<"2">>, <<"1", "0">>, <<"n", "a", "n">>, <<"a">> }

\* availableEpisodesDetail: no entry, one entry, or an entry for each mode
Details ==
    { << >> }
    \cup { [m \in {mo} |-> l] : mo \in Modes, l \in Seqs(Labels, MaxEps) }
    \cup { [m \in Modes |-> IF m = "sub" THEN l ELSE << <<"1">> >>] :
             l \in Seqs(Labels, MaxEps) }

ListInit ==
    /\ pc = "pure"
    /\ call \in [detail : Details, mode : Modes]
    /\ ret = << >>
    /\ debug \in BOOLEAN
    /\ client \in {"main.rs", "api.rs"}
    /\ resp = Error("")
    /\ rows_to_data_index = << >>
    /\ input = << >>
    /\ selected = None
    /\ exit = FALSE
    /\ chan = << >>
    /\ tasks = << >>
    /\ curl_url = << >>
    /\ curl_code = None
    /\ last_sent = Error("")
    /\ prev_sent = Error("")

\* the request or the decoding of its body fails
ListRequestFails ==
    /\ pc = "pure"
    /\ ret' = Err(RequestError)
    /\ pc' = "failed"
    /\ UNCHANGED << resp, rows_to_data_index, input, selected, exit, chan, tasks,
                    curl_url, curl_code, debug, client, last_sent, prev_sent, call >>

\* the response is well formed and get_episode_list runs to its end
ListReply ==
    /\ pc = "pure"
    /\ ret' = episode_list_reply(call.detail, call.mode, client, debug, "A")
    /\ pc' = "returned"
    /\ UNCHANGED << resp, rows_to_data_index, input, selected, exit, chan, tasks,
                    curl_url, curl_code, debug, client, last_sent, prev_sent, call >>

ListNext == ListRequestFails \/ ListReply

ListSpec == ListInit /\ [][ListNext]_vars

\* --------------------------------- get_episode_links applied on its own
Locators ==
    { <<"/", "/", "h", "/", "x">>,
      <<"h", "t", "t", "p", "s", ":", "/", "/", "h", "/", "x">>,
      <<"/", "a", "p", "i", "v", "t", "w", "o", "/", "x">>,
      <<"/", "a", "p", "i", "v", "t", "w", "o", "/", "c", "l", "o", "c", "k", "?", "x">>,
      <<"h", "t", "t", "p", "s", ":", "/", "/", "h", "/", "c", "l", "o", "c", "k", ".", "j", "s", "o", "n">>,
      <<"h", "t", "t", "p", "s", ":", "/", "/", "h", "/", "c", "l", "o", "c", "k">>,
      <<"h", "t", "t", "p", "s", ":", "/", "/", "h", "/", "x", "c", "l", "o", "c", "k", ".", "j", "s", "o", "n">>,
      <<"h", "t", "t", "p", "s", ":", "/", "/", "h", "/", "c", "l", "o", "c", "k", "w", "o", "r", "k">>,
      <<"h", "/", "x">> }
Token == <<"-", "-", "t">>
Final == <<"h", "t", "t", "p", "s", ":", "/", "/", "w", "/", "v">>
Final2 == <<"h", "t", "t", "p", "s", ":", "/", "/", "w", "/", "z">>

ClockReplies ==
    { TransportError,
      ClockReply("undecodable", FALSE, << >>),
      ClockReply("json", FALSE, << >>),
      ClockReply("json", TRUE, << >>),
      ClockReply("json", TRUE, << ClockLink(FALSE, << >>), ClockLink(TRUE, Final2) >>),
      ClockReply("json", TRUE, << ClockLink(TRUE, Final), ClockLink(TRUE, Final2) >>) }

\* every locator, plain or behind the marker, with every answer of the
\* clock endpoint
AllSources ==
    { Source(<<"a">>, raw, << >>, reply) : raw \in Locators, reply \in ClockReplies }
    \cup { Source(<<"a">>, Token, dec, reply) : dec \in Locators, reply \in ClockReplies }

\* the sources that episodes with several sources are made of
ListSources ==
    { Source(name, raw, << >>, reply) :
        name \in { <<"a">>, <<"b">> },
        raw \in { <<"/", "/", "h", "/", "x">>, <<"h", "t", "t", "p", "s", ":", "/", "/", "h", "/", "c", "l", "o", "c", "k", ".", "j", "s", "o", "n">> },
        reply \in { TransportError,
                    ClockReply("json", TRUE, << ClockLink(TRUE, Final) >>) } }

SourceLists == { << src >> : src \in AllSources } \cup Seqs(ListSources, MaxSources)

LinksInit ==
    /\ pc = "pure"
    /\ call \in [sources : SourceLists]
    /\ ret = << >>
    /\ debug \in BOOLEAN
    /\ client \in {"main.rs", "api.rs"}
    /\ resp = Error("")
    /\ rows_to_data_index = << >>
    /\ input = << >>
    /\ selected = None
    /\ exit = FALSE
    /\ chan = << >>
    /\ tasks = << >>
    /\ curl_url = << >>
    /\ curl_code = None
    /\ last_sent = Error("")
    /\ prev_sent = Error("")

\* the request or the decoding of its body fails
LinksRequestFails ==
    /\ pc = "pure"
    /\ ret' = [out |-> Err(RequestError), trace |-> << >>]
    /\ pc' = "failed"
    /\ UNCHANGED << resp, rows_to_data_index, input, selected, exit, chan, tasks,
                    curl_url, curl_code, debug, client, last_sent, prev_sent, call >>

\* the response is well formed and get_episode_links runs to its end
LinksReply ==
    /\ pc = "pure"
    /\ ret' = [out |-> episode_links_reply(call.sources, client, debug),
               trace |-> LinksTrace(call.sources, client, debug)]
    /\ pc' = "returned"
    /\ UNCHANGED << resp, rows_to_data_index, input, selected, exit, chan, tasks,
                    curl_url, curl_code, debug, client, last_sent, prev_sent, call >>

LinksNext == LinksRequestFails \/ LinksReply

LinksSpec == LinksInit /\ [][LinksNext]_vars

\* what the loop does at event::poll, which returns after 16 ms at the latest
PollStep ==
    NoKey \/ KeyEsc \/ KeyDown \/ KeyUp \/ KeyLeftRight \/ KeyEnter \/ KeyOther

\* the loop never blocks on the channel: a frame is followed by a poll, a
\* poll by the test of the loop condition and that by the next frame
FairSpec == Spec /\ WF_vars(LoopExit) /\ WF_vars(Frame) /\ WF_vars(PollStep)

\* ================================================================= claims
FrameStep == pc = "frame" /\ pc' = "poll"
Received == chan # << >>

InRange(rows, n) ==
    /\ Len(rows) <= n
    /\ \A i \in 1..Len(rows) : rows[i] \in 0..(n - 1)
    /\ \A i, j \in 1..Len(rows) : i # j => rows[i] # rows[j]

\* C1: in every reachable state every element of rows_to_data_index is a
\* valid index into the data of the active view, no index occurs twice and
\* the map is no longer than the data, also right after a tagged error
\* (which carries no data) replaced the view.
C1_RowsValidForActiveView == InRange(rows_to_data_index, Len(resp.data))

\* the position of a view along Loading -> Search -> Episode -> Provider
Stage(r) ==
    CASE r.tag = "Error" -> 0
      [] r.tag = "SearchResp" -> 1
      [] r.tag = "EpisodeListResp" -> 2
      [] r.tag = "EpisodeLinksResp" -> 3

\* C2: no step takes the active view from a later stage to an earlier one
\* (stated over the three result views, so that it does not depend on where
\* an error is placed).
C2_StageOnlyForward ==
    [][(resp.tag \in DataTags /\ resp'.tag \in DataTags) => Stage(resp') >= Stage(resp)]_vars

\* C3: last-message-wins: once the loop has drained every message that was
\* sent, the active view is the result that was sent last (completion
\* order), whatever the order in which the tasks were spawned.
C3_LastMessageWins == (chan = << >>) => (resp = last_sent)

\* two episode-list results with different data were sent one after the
\* other (both requests were spawned from the Search view, before either
\* result was shown), both are drained and the view shows the second
C3_Witness ==
    /\ chan = << >>
    /\ prev_sent.tag = "EpisodeListResp"
    /\ last_sent.tag = "EpisodeListResp"
    /\ prev_sent.data # last_sent.data
    /\ resp = last_sent
    /\ \A i \in 1..Len(tasks) : tasks[i].st = "done"

\* C4: every task that has terminated has sent exactly one message, for
\* either value of the debug flag.
C4_EveryTaskSendsOnce ==
    \A i \in 1..Len(tasks) : tasks[i].st # "running" => tasks[i].sends = 1

C6_CursorResetOnArrival ==
    [][(FrameStep /\ Received /\ Head(chan).tag \in DataTags /\ Head(chan).data # << >>)
         => selected' = 0]_vars

\* C7 as stated: at the end of every loop iteration in a result view the
\* map is the filter of the view's data by the current query text.
C7_AlwaysFiltered ==
    (pc = "frame" /\ resp.tag \in DataTags)
        => rows_to_data_index = update_row_to_data_index(resp, input, << >>)

\* C7 as amended: the map is recomputed when the query box handles a key, to
\* the filter of the view's data by the query text, and when a result
\* arrives, to the identity over its data; in a result view it is always one
\* of the two.
C7_RecomputedOnEditOrArrival ==
    [][/\ (pc = "poll" /\ input' # input /\ resp.tag \in DataTags)
            => rows_to_data_index' = update_row_to_data_index(resp', input', << >>)
       /\ resp'.tag \in DataTags
            => rows_to_data_index' \in { Identity(Len(resp'.data)),
                                         update_row_to_data_index(resp', input', << >>) }]_vars

\* the query text was edited in a result view and the map is the filter,
\* which dropped a row
C7_Witness ==
    /\ pc = "frame"
    /\ resp.tag \in DataTags
    /\ input # << >>
    /\ Len(resp.data) = 2
    /\ rows_to_data_index = update_row_to_data_index(resp, input, << >>)
    /\ Len(rows_to_data_index) = 1

\* C8: confirm with a selected row uses data[rows_to_data_index[cursor]]:
\* in Search it spawns exactly one episode-list request for that entry's id,
\* in Episode exactly one episode-links request for the show id and that
\* episode, in Provider it spawns nothing and hands that link's uri to curl.
C8_ConfirmComposesCursorAndMap ==
    [][(KeyEnter /\ resp.tag \in DataTags /\ selected # None /\ pc' = "frame")
         => LET item == resp.data[rows_to_data_index[selected + 1] + 1]
            IN CASE resp.tag = "SearchResp" ->
                      /\ tasks' = Append(tasks, Task("list", item.ref, << >>))
                      /\ curl_url' = curl_url
                 [] resp.tag = "EpisodeListResp" ->
                      /\ tasks' = Append(tasks, Task("links", resp.id, item.text))
                      /\ curl_url' = curl_url
                 [] resp.tag = "EpisodeLinksResp" ->
                      /\ tasks' = tasks
                      /\ curl_url' = item.ref]_vars

\* the filter has put entry B in the first row and confirm on row 0 of the
\* Search view has just spawned the request for B, not for data[0] = A
C8_Witness ==
    /\ pc = "frame"
    /\ resp = SearchResp(Edges1)
    /\ rows_to_data_index = << 1, 0 >>
    /\ selected = 0
    /\ tasks[Len(tasks)] = Task("list", "B", << >>)

C10_LoadingLeftOnce ==
    [][/\ (resp = Error("") /\ resp'.tag # "Error") => resp'.tag = "SearchResp"
       /\ resp.tag # "Error" => resp'.tag # "Error"]_vars

\* every message a task can send
Messages ==
    { Error(RequestError) }
    \cup { SearchResp(e) : e \in SearchReplies }
    \cup UNION { { EpisodeListResp(l, id) : l \in EpisodeReplies(id) } : id \in {"A", "B"} }
    \cup { EpisodeLinksResp(l) : l \in {Links1, Links2} }

InChan(m) == \E i \in 1..Len(chan) : chan[i] = m
LoopEnded == pc \in {"done", "panic"}

\* C11: no de-duplication and no cancellation: every message that is in the
\* channel is eventually applied to the view unless the loop ends first;
\* a frame takes exactly the oldest message and applies it, and no other
\* step removes a message.
C11_EveryMessageApplied ==
    /\ \A m \in Messages : InChan(m) ~> (resp = m \/ LoopEnded)
    /\ [][/\ (FrameStep /\ Received) => (resp' = Head(chan) /\ chan' = Tail(chan))
          /\ ~FrameStep => (\/ chan' = chan
                            \/ /\ Len(chan') = Len(chan) + 1
                               /\ SubSeq(chan', 1, Len(chan)) = chan)]_vars

\* two episode-list requests ran at once: the result sent first is shown
\* and the one sent second still waits for the next iteration
C11_Witness ==
    /\ Len(chan) = 1
    /\ chan[1] = last_sent
    /\ resp = prev_sent
    /\ prev_sent.tag = "EpisodeListResp"
    /\ last_sent.tag = "EpisodeListResp"
    /\ prev_sent # last_sent

\* C12: a key handled by the query box recomputes rows_to_data_index and
\* leaves the row cursor where it was, so the record under the cursor is
\* data[new_map[old_cursor]].
C12_EditKeepsCursor ==
    [][(pc = "poll" /\ input' # input)
         => /\ selected' = selected
            /\ rows_to_data_index'
                 = update_row_to_data_index(resp, input', rows_to_data_index)]_vars

\* the query "b" was typed with the cursor on row 0 of the Search view: the
\* cursor is still on row 0, which showed entry A and now shows entry B
C12_Witness ==
    /\ pc = "frame"
    /\ resp = SearchResp(Edges1)
    /\ input = << "b" >>
    /\ rows_to_data_index = << 1, 0 >>
    /\ selected = 0
    /\ Len(tasks) = 1

\* the score of the item shown in row i (1-based) of the map
RowScore(i) == Score(input, Haystack(resp.tag, resp.data[rows_to_data_index[i] + 1]))
Filtered == pc = "filtered"

\* C13: the map lists matching indices by descending score, and indices of
\* equal score in their original data order, in each of the three views.
C13_DescendingScoreStable ==
    Filtered =>
      \A i, j \in 1..Len(rows_to_data_index) :
        i < j => /\ RowScore(i) # NoMatch
                 /\ RowScore(j) # NoMatch
                 /\ \/ RowScore(i) > RowScore(j)
                    \/ /\ RowScore(i) = RowScore(j)
                       /\ rows_to_data_index[i] < rows_to_data_index[j]

\* two equal provider names tie and keep their data order
C13_Witness ==
    /\ Filtered
    /\ resp = EpisodeLinksResp(<< Link(<<"a", "b">>, U1), Link(<<"a", "b">>, U1) >>)
    /\ input = << "b" >>
    /\ rows_to_data_index = << 0, 1 >>

\* C14: with an empty query the map is exactly [0, 1, ..., n-1] for a data
\* set of size n, in any of the three views.
C14_EmptyQueryIdentity ==
    (Filtered /\ input = << >>)
      => rows_to_data_index = Identity(Len(resp.data))

C14_Witness ==
    /\ Filtered
    /\ input = << >>
    /\ resp.tag = "EpisodeListResp"
    /\ Len(resp.data) = MaxData
    /\ rows_to_data_index = Identity(MaxData)

RECURSIVE IsSubseq(_, _)
\* word is a subsequence of text
IsSubseq(word, text) ==
    IF word = << >> THEN TRUE
    ELSE IF text = << >> THEN FALSE
    ELSE IF Head(word) = Head(text) THEN IsSubseq(Tail(word), Tail(text))
    ELSE IsSubseq(word, Tail(text))

\* the data indices the map shows
Kept == { rows_to_data_index[i] : i \in 1..Len(rows_to_data_index) }
Key(n) == Haystack(resp.tag, resp.data[n + 1])

Words(q) ==
    { SubSeq(q, i, j) : <<i, j>> \in
        { x \in (1..Len(q)) \X (1..Len(q)) :
            /\ x[1] <= x[2]
            /\ \A k \in x[1]..x[2] : q[k] # " "
            /\ (x[1] = 1 \/ q[x[1] - 1] = " ")
            /\ (x[2] = Len(q) \/ q[x[2] + 1] = " ") } }

\* a word of the query matches a key: as a subsequence, ignoring case
\* unless the word has an upper-case letter
WordMatches(w, key) ==
    IF Fold(w) = w THEN IsSubseq(w, Fold(key)) ELSE IsSubseq(w, key)

Returned == pc = "returned"
\* the labels of the list a call returned
ReturnedLabels == [i \in 1..Len(ret.msg.data) |-> ret.msg.data[i].text]

\* the numeric value of a label, zero when the label is not a number
NumOrZero(label) ==
    IF label # << >> /\ \A i \in 1..Len(label) : Digit(label[i]) >= 0
      THEN DigitsValue(label, Len(label)) ELSE 0

Count(seq, x) == Cardinality({ i \in 1..Len(seq) : seq[i] = x })

\* C16: the list get_episode_list returns is a permutation of the service's
\* list for the configured mode, and each adjacent pair is in non-decreasing
\* numeric order, a label that is not a number counting as zero.
C16_SortedPermutation ==
    (Returned /\ ret.res = "Ok") =>
      /\ Len(ReturnedLabels) = Len(call.detail[call.mode])
      /\ \A x \in Labels : Count(ReturnedLabels, x) = Count(call.detail[call.mode], x)
      /\ \A i \in 1..(Len(ReturnedLabels) - 1) :
           NumOrZero(ReturnedLabels[i]) <= NumOrZero(ReturnedLabels[i + 1])

\* C17: on a well-formed response get_episode_list fails with the not-found
\* error that names the configured mode exactly when the per-mode map has no
\* entry for the mode, and returns no list then; when the entry exists, even
\* empty, it succeeds; the error is a tagged error other than the one of a
\* failed request.
C17_NotFoundIffNoEntry ==
    /\ Returned =>
         /\ (call.mode \notin DOMAIN call.detail)
              <=> (ret = Err(NotFoundError(call.mode)))
         /\ (call.mode \in DOMAIN call.detail) => ret.res = "Ok"
         /\ ret.res = "Err" => (ret.msg.tag = "Error" /\ ret.msg.e # RequestError)
    /\ pc = "failed" => ret.msg.e = RequestError

\* the value of source k after step 1: the decoded value for a locator
\* with the marker, the locator itself otherwise
AfterStep1(k) ==
    IF StartsWith(call.sources[k].raw, Marker)
      THEN call.sources[k].dec ELSE call.sources[k].raw

\* C18: for every locator, if the value after step 1 begins with two
\* slashes, the resolved uri is that value prefixed with https:, whether
\* the value was decoded or is the locator itself.
C18_ProtocolCompletedAfterDecode ==
    Returned =>
      \A k \in 1..Len(ret.trace) :
        StartsWith(AfterStep1(k), Slashes) => ret.trace[k].uri = Https \o AfterStep1(k)

\* C19: when the secondary call is made and fails, get_episode_links still
\* returns Ok with one entry per source, the entry of that source holding
\* the uri computed before the call; when it succeeds the entry holds the
\* link of the first element of links.
C19_SecondaryFailureFallsBack ==
    (Returned /\ \E k \in 1..Len(ret.trace) : ret.trace[k].secondary) =>
      /\ ret.out.res = "Ok"
      /\ Len(ret.out.msg.data) = Len(call.sources)
      /\ \A k \in 1..Len(call.sources) :
           ret.trace[k].secondary =>
             LET reply == call.sources[k].reply
                 found == /\ reply.kind = "json"
                          /\ reply.is_array
                          /\ reply.links # << >>
                          /\ reply.links[1].is_str
             IN ret.out.msg.data[k].ref
                  = IF found THEN reply.links[1].link ELSE ret.trace[k].pre

\* a uri that begins with https:// and has no clock path
Resolved(uri) ==
    /\ StartsWith(uri, Https \o Slashes)
    /\ ~Contains(uri, Clock)
    /\ ~Contains(uri, ClockJsonName)

C21_OneResolvedEntryPerSource ==
    Returned =>
      /\ ret.out.res = "Ok"
      /\ Len(ret.out.msg.data) = Len(call.sources)
      /\ \A k \in 1..Len(call.sources) :
           /\ ret.out.msg.data[k].text = call.sources[k].name
           /\ ret.out.msg.data[k].ref
                = IF /\ Contains(ret.trace[k].pre, ClockJsonName)
                     /\ resolve_clock_urls(call.sources[k].reply).ok
                    THEN call.sources[k].reply.links[1].link
                    ELSE ret.trace[k].pre

\* position i of v starts a /clock path segment: the text /clock, not the
\* second slash of //, followed by the end, a slash, a query or a fragment
ClockSegmentAt(v, i) ==
    /\ i + Len(Clock) - 1 <= Len(v)
    /\ SubSeq(v, i, i + Len(Clock) - 1) = Clock
    /\ (i = 1 \/ v[i - 1] # "/")
    /\ \/ i + Len(Clock) > Len(v)
       \/ v[i + Len(Clock)] \in {"/", "?", "#"}

RECURSIVE RewriteClockSegments(_, _)
\* v with every /clock segment from position i on rewritten to /clock.json
RewriteClockSegments(v, i) ==
    IF i > Len(v) THEN << >>
    ELSE IF ClockSegmentAt(v, i)
           THEN ClockJson \o RewriteClockSegments(v, i + Len(Clock))
           ELSE << v[i] >> \o RewriteClockSegments(v, i + 1)

\* C22: the value after steps 1 and 2 has each /clock segment of its path
\* that is not already /clock.json rewritten to /clock.json and nothing
\* else altered; a value without such a segment is left as it is.
C22_OnlyClockSegmentRewritten ==
    Returned =>
      \A k \in 1..Len(ret.trace) :
        ret.trace[k].norm = RewriteClockSegments(ret.trace[k].step1, 1)

ProviderConfirm ==
    KeyEnter /\ resp.tag = "EpisodeLinksResp" /\ selected # None /\ pc' = "frame"

\* C24 as stated: after the downloader has run, exit is set exactly when its
\* exit status is 0 or 1; otherwise the loop continues with the Provider
\* view, its map and its cursor unchanged.
C24_ExitOnZeroOrOne ==
    [][ProviderConfirm
         => /\ exit' <=> (curl_code' \in {0, 1})
            /\ ~exit' => /\ resp' = resp
                         /\ rows_to_data_index' = rows_to_data_index
                         /\ selected' = selected]_vars

\* C24 amended: exit is set exactly when the exit status is 0 or 1 or the
\* downloader ended without one; for any other exit status the loop
\* continues with the Provider view, its map and its cursor unchanged.
C24_ExitOnZeroOneOrNoStatus ==
    [][ProviderConfirm
         => /\ exit' <=> (curl_code' \in {0, 1, None})
            /\ curl_url' = resp.data[rows_to_data_index[selected + 1] + 1].ref
            /\ ~exit' => /\ resp' = resp
                         /\ rows_to_data_index' = rows_to_data_index
                         /\ selected' = selected]_vars

\* curl ended with status 2 for the selected link and the loop goes on in
\* the Provider view
C24_Witness ==
    /\ pc = "frame"
    /\ resp.tag = "EpisodeLinksResp"
    /\ curl_code = 2
    /\ ~exit
    /\ selected = 1
    /\ Len(rows_to_data_index) = 2
    /\ curl_url = resp.data[rows_to_data_index[2] + 1].ref

\* C25: taking a tagged error from the channel does not stop the loop: the
\* Error becomes the active state, the map and the cursor stay as they were
\* and the loop goes on to poll; with an Error as active state, the
\* placeholder of the start included, the loop panics exactly when confirm
\* is pressed.
C25_ErrorKeepsLoopRunning ==
    [][/\ (pc = "frame" /\ pc' # pc /\ ~exit /\ Received /\ Head(chan).tag = "Error")
            => /\ pc' = "poll"
               /\ resp' = Head(chan)
               /\ rows_to_data_index' = rows_to_data_index
               /\ selected' = selected
       /\ (pc = "poll" /\ resp.tag = "Error") => ((pc' = "panic") <=> KeyEnter)]_vars

\* the episode-list request failed after the cursor was moved to row 1 of
\* the Search view: the error is shown, the map and the cursor are the old
\* ones and the loop is at poll
C25_Witness ==
    /\ pc = "poll"
    /\ resp = Error(RequestError)
    /\ rows_to_data_index = << 0, 1 >>
    /\ selected = 1
    /\ Len(tasks) = 2

\* C26: confirm in a Search, Episode or Provider view with no row selected
\* spawns no task, runs no downloader and ends the loop with Ok.
C26_ConfirmWithoutRowReturns ==
    [][(KeyEnter /\ resp.tag \in DataTags /\ selected = None)
         => /\ pc' = "done"
            /\ tasks' = tasks
            /\ curl_url' = curl_url
            /\ curl_code' = curl_code
            /\ exit' = exit]_vars

\* the query matched nothing, the draw dropped the selection and the loop
\* has returned without a download and with the two tasks it had
C26_Witness ==
    /\ pc = "done"
    /\ resp.tag = "EpisodeListResp"
    /\ Len(resp.data) > 0
    /\ input # << >>
    /\ rows_to_data_index = << >>
    /\ selected = None
    /\ Len(tasks) = 2
    /\ curl_url = << >>
    /\ ~exit

====
